---- MODULE Spec2Model ----
(***************************************************************************)
(* A model of the video/audio to text converter: the chunked transcription *)
(* pipeline of video_to_text.py (VideoToTextConverter), its batch driver   *)
(* batch_convert.py, and the whole-file pipeline of transcribe.py.         *)
(*                                                                         *)
(* Strings whose characters matter (recognized text, the transcript) are   *)
(* sequences of one-character strings.  Times are whole seconds.  A path   *)
(* is a record [dir, stem, suffix].  The external collaborators (media     *)
(* decoding, the recognition backend, the document writer, the file        *)
(* system) are nondeterministic choices over the outcomes the code         *)
(* distinguishes.                                                          *)
(***************************************************************************)
EXTENDS Integers, Sequences, FiniteSets, TLC

VARIABLES args, fs, job, batch, wm, exit_code

vars == <<args, fs, job, batch, wm, exit_code>>

(***************************************************************************)
(* Bounds of the model.                                                    *)
(***************************************************************************)
\* Longest audio (seconds) a single-file run is given.
MaxDuration == 150
\* Longest audio (seconds) a file of a batch run is given.
MaxBatchDuration == 30
\* Audio durations are drawn every DurationStep seconds.
DurationStep == 15

(***************************************************************************)
(* Program constants.                                                      *)
(***************************************************************************)
\* video_to_text.py:101   chunk_duration = 30  # seconds
chunk_duration == 30

\* video_to_text.py:152   the fixed text of a transcript without speech
Placeholder ==
    << "[", "N", "o", " ", "s", "p", "e", "e", "c", "h", " ",
       "d", "e", "t", "e", "c", "t", "e", "d", " ", "i", "n", " ",
       "a", "u", "d", "i", "o", "]" >>

\* transcribe.py:38   audio.set_frame_rate(16000)
frame_rate == 16000

None == [dir |-> "", stem |-> "", suffix |-> ""]

\* The format of audio that is not there.
NoFormat == [rate |-> 0, channels |-> 0]

(***************************************************************************)
(* Pure helpers.                                                           *)
(***************************************************************************)
Min(a, b) == IF a <= b THEN a ELSE b

\* str.join: the elements of parts, sep between each two neighbours.
RECURSIVE Join(_, _)
Join(sep, parts) ==
    IF parts = <<>> THEN <<>>
    ELSE IF Len(parts) = 1 THEN parts[1]
    ELSE parts[1] \o sep \o Join(sep, Tail(parts))

\* str.strip
RECURSIVE LStrip(_)
LStrip(t) == IF t # <<>> /\ Head(t) = " " THEN LStrip(Tail(t)) ELSE t

RECURSIVE RStrip(_)
RStrip(t) ==
    IF t # <<>> /\ t[Len(t)] = " " THEN RStrip(SubSeq(t, 1, Len(t) - 1)) ELSE t

\* A strip that takes the blanks inside the text too.
StripEverySpace(t) == SelectSeq(t, LAMBDA c : c # " ")

Strip(t) == RStrip(LStrip(t))

\* str.startswith, str.endswith
StartsWith(t, prefix) ==
    Len(t) >= Len(prefix) /\ SubSeq(t, 1, Len(prefix)) = prefix

EndsWith(t, suffix) ==
    Len(t) >= Len(suffix) /\ SubSeq(t, Len(t) - Len(suffix) + 1, Len(t)) = suffix

\* str.split(sep): the pieces between the occurrences of sep, found from the
\* left and not overlapping; piece is the part of the current piece read so far.
RECURSIVE SplitFrom(_, _, _)
SplitFrom(t, sep, piece) ==
    IF t = <<>> THEN << piece >>
    ELSE IF StartsWith(t, sep)
         THEN << piece >> \o SplitFrom(SubSeq(t, Len(sep) + 1, Len(t)), sep, <<>>)
         ELSE SplitFrom(Tail(t), sep, Append(piece, Head(t)))

Split(t, sep) == SplitFrom(t, sep, <<>>)

\* The audio track of the media file at a path, as the decoder reads it: its
\* sample rate (Hz) and its number of channels.
SourceFormat(p) ==
    CASE p.suffix = ".avi" -> [rate |-> 16000, channels |-> 1]
      [] p.suffix = ".wav" -> [rate |-> 8000,  channels |-> 1]
      [] p.dir = "in/sub"  -> [rate |-> 48000, channels |-> 2]
      [] OTHER             -> [rate |-> 44100, channels |-> 2]

\* A with_suffix that keeps the name and loses the directory.
with_suffix_in_cwd(p, s) == [dir |-> ".", stem |-> p.stem, suffix |-> s]

\* Path.with_suffix
with_suffix(p, s) == [p EXCEPT !.suffix = s]

\* The audio durations (seconds) a run of the given entry point may meet.
Durations(e) ==
    { d \in 0..(IF e = "batch_convert" THEN MaxBatchDuration ELSE MaxDuration) :
        d % DurationStep = 0 }

Digit == << "1", "2", "3", "4", "5", "6", "7", "8", "9" >>

\* What the recognition backend can answer for chunk number n: nothing
\* (an empty result) or the words spoken in that chunk.
Texts(n) == { <<>>, << "w", Digit[((n - 1) % 9) + 1] >> }

(***************************************************************************)
(* The file system: the temporary wav files that exist (by number, in      *)
(* order of creation) and the documents that exist (path -> content).      *)
(***************************************************************************)
\* tempfile.mkstemp / NamedTemporaryFile(delete=False): a fresh file.
NewTemp(f) == f.ntmp + 1

CreateTemp(f) == [f EXCEPT !.ntmp = @ + 1, !.tmp = @ \cup {f.ntmp + 1}]

\* os.remove / Path.unlink of an existing temporary file.
RemoveTemp(f, t) == [f EXCEPT !.tmp = @ \ {t}]

\* Path.exists for a document path.
OutExists(f, p) == \E d \in f.out : d.path = p

\* Document.save: the file at p now holds content c.
SaveDoc(f, p, c) ==
    [f EXCEPT !.out = { d \in @ : d.path # p } \cup { [path |-> p, content |-> c] }]

(***************************************************************************)
(* VideoToTextConverter: one conversion job.                               *)
(*   pc                where convert() stands                              *)
(*   temp_audio_path   0 for None, else the number of the temporary wav    *)
(*   wav_duration      the length of the audio written to the wav          *)
(*   exc               the exception convert() is propagating, or "none"   *)
(*   result            what convert() returned (no value: << >>)           *)
(*   printed           the completion report convert() printed             *)
(* History kept for the properties:                                        *)
(*   segments          one entry per chunk attempted                       *)
(*   steps             the pipeline steps started, with their outcome      *)
(*   removes           the os.remove calls made, with their outcome        *)
(***************************************************************************)
IdleJob ==
    [ id |-> 0, pc |-> "idle", video_path |-> None, output_path |-> None,
      temp_audio_path |-> 0, wav_duration |-> 0, wav_format |-> NoFormat,
      stream_pos |-> 0, writes |-> 0,
      audio_duration |-> 0, offset |-> 0, chunk_num |-> 0,
      full_text |-> <<>>, transcribed_text |-> <<>>,
      exc |-> "none", result |-> <<>>, printed |-> <<>>,
      segments |-> <<>>, steps |-> <<>>, removes |-> <<>>,
      paragraphs |-> <<>> ]

\* __init__: the output path is the one given, else the video's with .docx.
DefaultOutput(video_path, output_path) ==
    IF output_path # None THEN output_path ELSE with_suffix(video_path, ".docx")

NewConverter(id, video_path, output_path) ==
    [IdleJob EXCEPT !.id = id, !.pc = "extract", !.video_path = video_path,
                    !.output_path = DefaultOutput(video_path, output_path)]

\* A convert() without its except path: the next step runs whatever the
\* last one did.
AfterStepIgnoringFailure(exc, next) == next

\* convert(): a step that raised goes to the except clause and on to the
\* finally clause; a step that returned is followed by the next step.
AfterStep(exc, next) == IF exc = "none" THEN next ELSE "finally"

Step(j, name, exc) == Append(j.steps, [step |-> name, ok |-> (exc = "none")])

\* Lines 63-66: write_audiofile is told the codec and "-ac 1" and no sample
\* rate: the wav is mono at the rate of the clip's audio.
ExtractedFormat(format) == [rate |-> format.rate, channels |-> 1]

\* extract_audio: the outcomes of the decoding library.
ExtractOutcomes ==
    { "ok", "DecodeError", "NoAudioTrack", "AudioWriteError", "KeyboardInterrupt" }

\* extract_audio creates the temporary wav (mkstemp, line 55) unless
\* VideoFileClip itself raised (line 52).
ExtractCreatesTemp(o) == o # "DecodeError"

ExtractAudio ==
    /\ job.pc = "extract"
    /\ \E o \in ExtractOutcomes, d \in Durations(args.prog) :
          LET exc == IF o = "ok" THEN "none" ELSE o IN
          /\ o # "ok" => d = 0
          /\ fs' = IF ExtractCreatesTemp(o) THEN CreateTemp(fs) ELSE fs
          /\ job' = [job EXCEPT
                !.temp_audio_path = IF ExtractCreatesTemp(o) THEN NewTemp(fs) ELSE 0,
                !.wav_duration = d,
                !.wav_format = IF o = "ok"
                               THEN ExtractedFormat(SourceFormat(job.video_path))
                               ELSE NoFormat,
                !.exc = exc,
                !.steps = Step(job, "Extracting", exc),
                !.pc = AfterStep(exc, "open")]
    /\ UNCHANGED <<args, batch, wm, exit_code>>

\* transcribe_audio, lines 94-103: opening the wav raises, or gives its
\* duration; the loop starts at offset 0 with chunk number 1.
OpenOutcomes == { "ok", "AudioFileError", "KeyboardInterrupt" }

OpenAudio ==
    /\ job.pc = "open"
    /\ \E o \in OpenOutcomes :
          LET ok == o = "ok"
              exc == IF ok THEN "none" ELSE o IN
          job' = [job EXCEPT
                !.audio_duration = IF ok THEN job.wav_duration ELSE 0,
                !.offset = 0,
                !.stream_pos = 0,
                !.chunk_num = IF ok THEN 1 ELSE 0,
                !.exc = exc,
                !.steps = IF ok THEN @ ELSE Step(job, "Transcribing", exc),
                !.pc = AfterStep(exc, "chunk")]
    /\ UNCHANGED <<args, fs, batch, wm, exit_code>>

\* A record() call that always asks for a full chunk.
ChunkLengthUnclipped(j) == chunk_duration

\* The duration asked of recognizer.record for the chunk at the offset.
ChunkLength(j) == Min(chunk_duration, j.audio_duration - j.offset)

\* What one chunk can come to: record() raises; the backend could not
\* understand the audio; the backend request failed; the backend answered.
ChunkOutcomes == { "read_error", "unknown_value", "request_error", "text" }

\* A loop whose failure handling drops what was collected so far.
CollectResetOnFailure(full_text, outcome, text) ==
    IF outcome = "text"
    THEN IF text # <<>> THEN Append(full_text, text) ELSE full_text
    ELSE <<>>

\* Lines 125-126: a non-empty answer is appended to full_text.
Collect(full_text, outcome, text) ==
    IF outcome = "text" /\ text # <<>> THEN Append(full_text, text) ELSE full_text

\* Lines 95 and 108-112: record() reads on from where the source stands.  The
\* source is opened once, before the loop, and every record() call first
\* passes over "offset" seconds of it and then keeps up to "duration"
\* seconds, as far as the audio goes.
RecordStart(j) == Min(j.audio_duration, j.stream_pos + j.offset)

RecordEnd(j) == Min(j.audio_duration, RecordStart(j) + ChunkLength(j))

\* Lines 108-123: the calls of recognize_google one chunk causes: none when
\* record() raised before it, else one.
RecognizeCalls(outcome) == IF outcome = "read_error" THEN 0 ELSE 1

\* Lines 129-141: what an exception inside the loop body does to the loop:
\* every one of them is caught and the loop goes on.
LoopAfter(outcome) == "chunk"

\* A loop that tries a chunk it could not read once more.
NextOffsetStuckOnReadError(j, outcome) ==
    IF outcome = "read_error" THEN j.offset ELSE j.offset + chunk_duration

\* Lines 134-135 and 139-140: the offset after a chunk.
NextOffset(j, outcome) == j.offset + chunk_duration

ProcessChunk ==
    /\ job.pc = "chunk"
    /\ job.offset < job.audio_duration
    /\ \/ \E o \in ChunkOutcomes, t \in Texts(job.chunk_num) :
          /\ o # "text" => t = <<>>
          /\ job' = [job EXCEPT
                !.full_text = Collect(@, o, t),
                !.offset = NextOffset(job, o),
                !.chunk_num = @ + 1,
                !.segments = Append(@, [offset |-> job.offset,
                                        duration |-> ChunkLength(job),
                                        outcome |-> o, text |-> t,
                                        calls |-> RecognizeCalls(o),
                                        format |-> job.wav_format,
                                        from |-> RecordStart(job),
                                        to |-> RecordEnd(job)]),
                !.stream_pos = IF o = "read_error" THEN @ ELSE RecordEnd(job),
                !.pc = LoopAfter(o)]
       \* the user interrupts the chunk: no handler of the loop takes it
       \/ job' = [job EXCEPT
                !.exc = "KeyboardInterrupt",
                !.steps = Step(job, "Transcribing", "KeyboardInterrupt"),
                !.pc = AfterStep("KeyboardInterrupt", "chunk")]
    /\ UNCHANGED <<args, fs, batch, wm, exit_code>>

\* A transcript without the placeholder for the empty case.
TranscriptWithoutPlaceholder(full_text) == Join(<<" ">>, full_text)

\* Lines 147-154: the texts joined by one space, or the placeholder.
Transcript(full_text) ==
    LET transcribed_text == Join(<<" ">>, full_text) IN
    IF transcribed_text = <<>> THEN Placeholder ELSE transcribed_text

FinishTranscription ==
    /\ job.pc = "chunk"
    /\ ~(job.offset < job.audio_duration)
    /\ job' = [job EXCEPT
          !.transcribed_text = Transcript(job.full_text),
          !.steps = Step(job, "Transcribing", "none"),
          !.pc = AfterStep("none", "docx")]
    /\ UNCHANGED <<args, fs, batch, wm, exit_code>>

\* A convert() that hands back the path of its input.
ConvertResultVideoPath(j) == << j.video_path >>

\* Line 240: the value convert() returns.
ConvertResult(j) == << j.output_path >>

\* Lines 237-238: the completion report convert() prints.
ConvertReport(j) ==
    [output_file |-> j.output_path, length |-> Len(j.transcribed_text)]

\* Lines 197-200 with a period after every piece, the last one too.
ParagraphPeriodAlways(para, i, n) == Strip(para) \o << "." >>

\* Lines 197-200: the text of the paragraph made of the i-th of n pieces: the
\* piece stripped, and a run "." unless it is the last or ends with a period.
Paragraph(para, i, n) ==
    Strip(para) \o (IF i < n /\ ~EndsWith(para, << "." >>) THEN << "." >> ELSE <<>>)

\* Lines 194-205: the body of the document: one paragraph for every piece of
\* the transcript that is not blank.
RECURSIVE BodyFrom(_, _)
BodyFrom(paragraphs, i) ==
    IF i > Len(paragraphs) THEN <<>>
    ELSE (IF Strip(paragraphs[i]) # <<>>
          THEN << Paragraph(paragraphs[i], i, Len(paragraphs)) >>
          ELSE <<>>) \o BodyFrom(paragraphs, i + 1)

Body(transcribed_text) == BodyFrom(Split(transcribed_text, << ".", " " >>), 1)

\* create_docx and the rest of the try block: the document is saved at the
\* output path, or doc.save raises.
CreateDocx ==
    /\ job.pc = "docx"
    /\ \E ok \in BOOLEAN :
          LET exc == IF ok THEN "none" ELSE "OutputWriteError" IN
          /\ fs' = IF ok
                   THEN SaveDoc(fs, job.output_path,
                                job.id)
                   ELSE fs
          /\ job' = [job EXCEPT
                !.exc = exc,
                !.steps = Step(job, "Assembling", exc),
                !.paragraphs = Body(job.transcribed_text),
                !.writes = IF ok THEN @ + 1 ELSE @,
                !.printed = IF ok THEN << ConvertReport(job) >> ELSE @,
                !.result = IF ok THEN ConvertResult(job) ELSE @,
                !.pc = AfterStep(exc, "finally")]
    /\ UNCHANGED <<args, batch, wm, exit_code>>

\* Line 248: the finally clause removes the wav if one was made and exists.
CleanupNeeded(j, f) == j.temp_audio_path # 0 /\ j.temp_audio_path \in f.tmp

\* Lines 246-253: os.remove succeeds, or raises and only a warning is
\* printed; then convert() returns, or the exception goes on to the caller.
Finally ==
    /\ job.pc = "finally"
    /\ \E removed \in BOOLEAN :
          /\ ~CleanupNeeded(job, fs) => removed = FALSE
          /\ fs' = IF removed THEN RemoveTemp(fs, job.temp_audio_path) ELSE fs
          /\ job' = [job EXCEPT
                !.removes = IF CleanupNeeded(job, fs)
                            THEN Append(@, removed) ELSE @,
                !.pc = IF job.exc = "none" THEN "returned" ELSE "raised"]
    /\ UNCHANGED <<args, batch, wm, exit_code>>

ConvertStep ==
    \/ ExtractAudio
    \/ OpenAudio
    \/ ProcessChunk
    \/ FinishTranscription
    \/ CreateDocx
    \/ Finally

\* "except Exception" takes every exception of the model but the interrupt.
CaughtAsException(exc) == exc # "KeyboardInterrupt"

\* An exception no handler of the program takes ends the process in the
\* interpreter: with a traceback and status 1, or, for an interrupt, as the
\* interpreter and platform have it: status 1, or death by SIGINT, which
\* the calling shell reports as 130.
UncaughtStatus(exc) == IF exc = "KeyboardInterrupt" THEN { 1, 130 } ELSE { 1 }

\* A constructor that does not look whether the video is there.
VideoAssumedFound(a) == TRUE

\* Line 33: self.video_path.exists()
VideoFound(a) == a.input_exists

(***************************************************************************)
(* video_to_text.py main: one job from the command line.                   *)
(***************************************************************************)
\* Lines 291-302: a missing video makes the constructor raise, which main
\* reports with exit code 1; else the job runs.
VttMain ==
    /\ args.prog = "video_to_text"
    /\ exit_code = -1
    /\ job.pc = "idle"
    /\ IF VideoFound(args)
       THEN /\ job' = NewConverter(1, args.input, args.output)
            /\ UNCHANGED exit_code
       ELSE /\ exit_code' = 1
            /\ UNCHANGED job
    /\ UNCHANGED <<args, fs, batch, wm>>

\* Lines 297-302: 0 after convert() returned; 1 after it raised an
\* Exception, which main catches; a KeyboardInterrupt is no Exception and
\* leaves main.
VttExit ==
    /\ args.prog = "video_to_text"
    /\ exit_code = -1
    /\ job.pc \in { "returned", "raised" }
    /\ exit_code' \in (IF job.pc = "returned" THEN { 0 }
                       ELSE IF CaughtAsException(job.exc) THEN { 1 }
                       ELSE UncaughtStatus(job.exc))
    /\ UNCHANGED <<args, fs, job, batch, wm>>


(***************************************************************************)
(* batch_convert.py: every matched file of a directory, one job each.      *)
(*   pc             where batch_convert() stands                           *)
(*   video_files    the matched files, in the order the glob gave them     *)
(*   i              the number of the file whose turn it is                *)
(* History kept for the properties:                                        *)
(*   skipped        the files passed over at the overwrite prompt          *)
(*   turns          one entry per file whose turn has come: whether its    *)
(*                  output existed, the answer given, whether a job was    *)
(*                  started, the document that was there, how it ended     *)
(***************************************************************************)
\* The files of the input directory "in" and of its subdirectory.
Tree ==
    << [dir |-> "in", stem |-> "a", suffix |-> ".mp4"],
       [dir |-> "in", stem |-> "a", suffix |-> ".avi"],
       [dir |-> "in/sub", stem |-> "a", suffix |-> ".mp4"] >>

Patterns == { "*.mp4", "*.avi", "*.[am]*", "*.mkv" }

\* fnmatch of a file name against the pattern.
Matches(pattern, p) ==
    CASE pattern = "*.mp4" -> p.suffix = ".mp4"
      [] pattern = "*.avi" -> p.suffix = ".avi"
      [] pattern = "*.[am]*" -> p.suffix \in { ".mp4", ".avi" }
      [] OTHER -> FALSE

\* Lines 43-46: Path.glob looks in the directory itself, Path.rglob in its
\* subdirectories too.
Glob(pattern, recursive) ==
    SelectSeq(Tree, LAMBDA p : /\ Matches(pattern, p)
                               /\ (recursive \/ p.dir = "in"))

\* Lines 66-69: the document a video is converted to.
OutputFile(video_file, output_dir) ==
    IF output_dir
    THEN [dir |-> "out", stem |-> video_file.stem \o "_transcript", suffix |-> ".docx"]
    ELSE with_suffix(video_file, ".docx")

\* video_file.name
Name(p) == [stem |-> p.stem, suffix |-> p.suffix]

\* What the user may type at the overwrite prompt.
Responses == { "y", "Y", "n", "yes", "" }

\* str.lower
Lower(r) ==
    CASE r = "Y" -> "y"
      [] r = "N" -> "n"
      [] r = "YES" -> "yes"
      [] OTHER -> r

\* A prompt that takes every answer but n for a yes.
OverwriteUnlessNo(response) == Lower(response) # "n"

\* Line 75: the answer that lets an existing output be overwritten.
OverwriteConfirmed(response) == Lower(response) = "y"

\* Line 110
ReturnCode(failed) == IF failed = 0 THEN 0 ELSE 1

IdleBatch ==
    [ pc |-> "start", video_files |-> <<>>, i |-> 0,
      successful |-> 0, failed |-> 0, failed_files |-> <<>>,
      skipped |-> 0, turns |-> <<>> ]

\* The document at path p: the job that wrote it (0: it was there before
\* the run), or -1 when there is none.
DocAt(f, p) == IF OutExists(f, p) THEN (CHOOSE d \in f.out : d.path = p).content ELSE -1

\* Lines 25-58: the directory is checked and searched; no directory and no
\* match end the run with 1.
BatchStart ==
    /\ args.prog = "batch_convert"
    /\ batch.pc = "start"
    /\ LET video_files == Glob(args.pattern, args.recursive) IN
       IF args.input_dir # "dir" \/ video_files = <<>>
       THEN /\ batch' = [batch EXCEPT !.pc = "returned"]
            /\ exit_code' = 1
       ELSE /\ batch' = [batch EXCEPT !.pc = "loop", !.video_files = video_files,
                                      !.i = 1]
            /\ UNCHANGED exit_code
    /\ UNCHANGED <<args, fs, job, wm>>

\* Lines 60-85: the turn of the next file, up to the call of convert().
\* With its output already there the user is asked, and any answer but y
\* passes the file over.
BatchNextFile ==
    /\ batch.pc = "loop"
    /\ batch.i <= Len(batch.video_files)
    /\ LET video_file == batch.video_files[batch.i]
           output_file == OutputFile(video_file, args.output_dir)
           existed == OutExists(fs, output_file)
       IN \E response \in Responses :
            /\ ~existed => response = ""
            /\ LET start == ~existed \/ OverwriteConfirmed(response)
                   turn == [file |-> video_file, output_file |-> output_file,
                            existed |-> existed, response |-> response,
                            started |-> start, before |-> DocAt(fs, output_file),
                            outcome |-> IF start THEN "running" ELSE "skipped"]
               IN IF start
                  THEN /\ job' = NewConverter(batch.i, video_file, output_file)
                       /\ batch' = [batch EXCEPT !.pc = "convert",
                                                 !.turns = Append(@, turn)]
                  ELSE /\ batch' = [batch EXCEPT !.i = @ + 1,
                                                 !.skipped = @ + 1,
                                                 !.turns = Append(@, turn)]
                       /\ UNCHANGED job
    /\ UNCHANGED <<args, fs, wm, exit_code>>

\* Lines 87-88: convert() returned.
Succeeded(b) == [b EXCEPT !.successful = @ + 1]

\* A failure handler that lists the file but does not count it.
FailedUncounted(b, file, exc) ==
    [b EXCEPT !.failed_files = Append(@, [name |-> Name(file), error |-> exc])]

\* Lines 90-94: convert() raised; the file is recorded and the loop goes on.
Failed(b, file, exc) ==
    [b EXCEPT !.failed = @ + 1,
              !.failed_files = Append(@, [name |-> Name(file), error |-> exc])]

\* Lines 85-94: the job of the file has ended; its converter is not used
\* again.
BatchJobEnd ==
    /\ batch.pc = "convert"
    /\ job.pc \in { "returned", "raised" }
    /\ job.pc = "raised" => CaughtAsException(job.exc)
    /\ LET b == IF job.pc = "returned"
                THEN Succeeded(batch)
                ELSE Failed(batch, batch.video_files[batch.i], job.exc)
       IN batch' = [b EXCEPT
             !.pc = "loop",
             !.i = @ + 1,
             !.turns[Len(batch.turns)].outcome =
                 IF job.pc = "returned" THEN "successful" ELSE "failed"]
    /\ job' = IdleJob
    /\ UNCHANGED <<args, fs, wm, exit_code>>

\* Lines 96-110: after the last file, the summary and the return code.
BatchSummary ==
    /\ batch.pc = "loop"
    /\ batch.i > Len(batch.video_files)
    /\ batch' = [batch EXCEPT !.pc = "returned"]
    /\ exit_code' = ReturnCode(batch.failed)
    /\ UNCHANGED <<args, fs, job, wm>>

\* The overwrite prompt of line 73 is up: input() waits for the user.
AtPrompt ==
    /\ batch.pc = "loop"
    /\ batch.i <= Len(batch.video_files)
    /\ OutExists(fs, OutputFile(batch.video_files[batch.i], args.output_dir))

\* main, lines 166-168: a KeyboardInterrupt, raised in convert() or at the
\* prompt, passes the handler of line 90 and ends the batch with 130.
BatchInterrupted ==
    /\ \/ batch.pc = "convert" /\ job.pc = "raised" /\ ~CaughtAsException(job.exc)
       \/ AtPrompt
    /\ batch' = [batch EXCEPT !.pc = "interrupted"]
    /\ exit_code' = 130
    /\ UNCHANGED <<args, fs, job, wm>>

BatchStep ==
    \/ BatchStart
    \/ BatchNextFile
    \/ BatchJobEnd
    \/ BatchSummary
    \/ BatchInterrupted

(***************************************************************************)
(* transcribe.py: the whole-file pipeline.                                 *)
(*   pc                 where main() stands                                *)
(*   audio_source       0 for the input file itself, else the number of    *)
(*                      the wav ensure_audio extracted                     *)
(*   normalised_audio   the number of the wav normalise_audio wrote        *)
(*   exc                the exception that ended main(), or "none"         *)
(* History kept for the properties:                                        *)
(*   steps              the pipeline steps started, with their outcome     *)
(*   unlinked           the files the cleanup removed (0: the input)       *)
(***************************************************************************)
IdleMain ==
    [ pc |-> "start", audio_source |-> 0, normalised_audio |-> 0,
      source_format |-> NoFormat, normalised_format |-> NoFormat,
      handed |-> NoFormat, input_deleted |-> FALSE, writes |-> 0,
      text |-> <<>>, exc |-> "none", steps |-> <<>>, unlinked |-> <<>> ]

\* Line 22: the suffixes ensure_audio takes for audio.
AudioSuffixes == { ".wav", ".mp3", ".m4a", ".aac", ".flac", ".ogg" }

\* What the model may answer for the whole file.
WhisperTexts == { <<>>, << " ", "h", "i", " " >>, << "h", "i", ".", " ", "y", "o" >> }

\* A main() that goes on to its next statement after an exception.
MainAfterIgnoringFailure(exc, next) == next

\* An exception that leaves main(): the pipeline stops and the process ends
\* with a traceback and exit code 1.
MainAfter(exc, next) == IF exc = "none" THEN next ELSE "failed"

MainStep(m, name, exc) == Append(m.steps, [step |-> name, ok |-> (exc = "none")])

\* Line 66: args.input.exists()
InputFound(a) == a.input_exists

\* Lines 66-68: a missing input ends the run with 1 before any step.
WmStart ==
    /\ args.prog = "transcribe"
    /\ wm.pc = "start"
    /\ IF InputFound(args)
       THEN /\ wm' = [wm EXCEPT !.pc = "ensure"]
            /\ UNCHANGED exit_code
       ELSE /\ wm' = [wm EXCEPT !.pc = "exited"]
            /\ exit_code' = 1
    /\ UNCHANGED <<args, fs, job, batch>>

\* ensure_audio (lines 19-32, called at line 70): an audio file is passed
\* through; for a video a temporary wav is created and the audio written to
\* it, which may raise.
EnsureAudio ==
    /\ wm.pc = "ensure"
    /\ IF args.input.suffix \in AudioSuffixes
       THEN /\ wm' = [wm EXCEPT !.audio_source = 0,
                                !.source_format = SourceFormat(args.input),
                                !.steps = MainStep(wm, "Extracting", "none"),
                                !.pc = "normalise"]
            /\ UNCHANGED <<fs, exit_code>>
       ELSE \E ok \in BOOLEAN :
              LET exc == IF ok THEN "none" ELSE "DecodeError" IN
              /\ fs' = CreateTemp(fs)
              /\ wm' = [wm EXCEPT !.audio_source = IF ok THEN NewTemp(fs) ELSE 0,
                                  !.source_format = IF ok
                                                    THEN SourceFormat(args.input)
                                                    ELSE NoFormat,
                                  !.exc = exc,
                                  !.steps = MainStep(wm, "Extracting", exc),
                                  !.pc = MainAfter(exc, "normalise")]
              /\ exit_code' = IF ok THEN exit_code ELSE 1
    /\ UNCHANGED <<args, job, batch>>

\* Line 38: set_frame_rate(16000).set_channels(1), whatever the audio was.
NormalisedFormat(format) == [rate |-> frame_rate, channels |-> 1]

\* normalise_audio (lines 35-43, called at line 71): reading the audio may
\* raise; then a temporary wav is created and the export may raise.
NormaliseOutcomes == { "ok", "ReadError", "ExportError" }

NormaliseAudio ==
    /\ wm.pc = "normalise"
    /\ \E o \in NormaliseOutcomes :
          LET exc == IF o = "ok" THEN "none" ELSE o IN
          /\ fs' = IF o = "ReadError" THEN fs ELSE CreateTemp(fs)
          /\ wm' = [wm EXCEPT !.normalised_audio = IF o = "ok" THEN NewTemp(fs) ELSE 0,
                              !.normalised_format =
                                  IF o = "ok" THEN NormalisedFormat(wm.source_format)
                                  ELSE NoFormat,
                              !.exc = exc,
                              !.steps = MainStep(wm, "Normalizing", exc),
                              !.pc = MainAfter(exc, "transcribe")]
          /\ exit_code' = IF o = "ok" THEN exit_code ELSE 1
    /\ UNCHANGED <<args, job, batch>>

\* transcribe_audio (lines 46-49, called in the try block at line 74): the
\* model's text, stripped, or an exception.
TranscribeOutcomes == { "ok", "TranscriptionError", "KeyboardInterrupt" }

TranscribeFile ==
    /\ wm.pc = "transcribe"
    /\ \E o \in TranscribeOutcomes, t \in WhisperTexts :
          LET ok == o = "ok"
              exc == IF ok THEN "none" ELSE o IN
          /\ ~ok => t = <<>>
          /\ wm' = [wm EXCEPT !.text = Strip(t),
                              !.handed = wm.normalised_format,
                              !.exc = exc,
                              !.steps = MainStep(wm, "Transcribing", exc),
                              !.pc = "cleanup"]
    /\ UNCHANGED <<args, fs, job, batch, exit_code>>

\* Line 23 and line 76: audio_source is the input path itself (written 0)
\* when ensure_audio passed the input through.
SourceIsInput(m) == m.audio_source = 0

\* Line 76: audio_source.exists()
SourceExists(m, f) ==
    IF SourceIsInput(m) THEN ~m.input_deleted ELSE m.audio_source \in f.tmp

\* A cleanup that removes the audio source without asking whose it is.
UnlinkSourceUntested(m, f) == SourceExists(m, f)

\* Line 76: the extracted wav is removed if it is not the input and exists.
UnlinkSource(m, f) == ~SourceIsInput(m) /\ SourceExists(m, f)

\* Line 78: the normalised wav is removed if it exists.
UnlinkNormalised(m, f) == m.normalised_audio \in f.tmp

\* The finally clause (lines 75-79): up to two unlink calls, each of which
\* may raise and so end the clause; then the exception, if any, goes on.
Cleanup ==
    /\ wm.pc = "cleanup"
    /\ \E ok1 \in BOOLEAN, ok2 \in BOOLEAN :
          LET first == UnlinkSource(wm, fs)
              second == (first => ok1) /\ UnlinkNormalised(wm, fs)
              f1 == IF first /\ ok1 THEN RemoveTemp(fs, wm.audio_source) ELSE fs
              f2 == IF second /\ ok2 THEN RemoveTemp(f1, wm.normalised_audio) ELSE f1
              u1 == IF first /\ ok1 THEN << wm.audio_source >> ELSE <<>>
              u2 == IF second /\ ok2 THEN << wm.normalised_audio >> ELSE <<>>
              exc == IF (first /\ ~ok1) \/ (second /\ ~ok2) THEN "UnlinkError"
                     ELSE wm.exc
          IN /\ ~first => ok1
             /\ ~second => ok2
             /\ fs' = f2
             /\ wm' = [wm EXCEPT !.unlinked = u1 \o u2,
                                 !.input_deleted =
                                     @ \/ (first /\ ok1 /\ SourceIsInput(wm)),
                                 !.exc = exc,
                                 !.pc = MainAfter(exc, "save")]
             /\ exit_code' \in (IF exc = "none" THEN { exit_code }
                                ELSE UncaughtStatus(exc))
    /\ UNCHANGED <<args, job, batch>>

\* save_to_docx (lines 52-56, called at lines 81-83): the document is saved
\* at the output path, or saving raises.
SaveToDocx ==
    /\ wm.pc = "save"
    /\ \E ok \in BOOLEAN :
          LET exc == IF ok THEN "none" ELSE "OutputWriteError"
              output_path == DefaultOutput(args.input, args.output)
          IN /\ fs' = IF ok THEN SaveDoc(fs, output_path, 1) ELSE fs
             /\ wm' = [wm EXCEPT !.exc = exc,
                                 !.steps = MainStep(wm, "Assembling", exc),
                                 !.writes = IF ok THEN @ + 1 ELSE @,
                                 !.pc = MainAfter(exc, "done")]
             /\ exit_code' = IF ok THEN 0 ELSE 1
    /\ UNCHANGED <<args, job, batch>>

MainStepAny ==
    \/ WmStart
    \/ EnsureAudio
    \/ NormaliseAudio
    \/ TranscribeFile
    \/ Cleanup
    \/ SaveToDocx

(***************************************************************************)
(* The runs: which program is started, with which arguments, on which      *)
(* files.                                                                  *)
(***************************************************************************)
NoArgs ==
    [ prog |-> "", input |-> None, input_exists |-> FALSE, output |-> None,
      input_dir |-> "", output_dir |-> FALSE, pattern |-> "", recursive |-> FALSE ]

OldDoc(p) == [path |-> p, content |-> 0]

TalkVideo == [dir |-> "in", stem |-> "talk", suffix |-> ".mp4"]
NotesDoc == [dir |-> "out", stem |-> "notes", suffix |-> ".docx"]

\* python video_to_text.py VIDEO [-o OUTPUT]
VttRuns ==
    { [NoArgs EXCEPT !.prog = "video_to_text", !.input = TalkVideo,
                     !.input_exists = e, !.output = o] :
        e \in BOOLEAN, o \in { None, NotesDoc } }

VttInit ==
    /\ args \in VttRuns
    /\ \E old \in BOOLEAN :
          fs = [ntmp |-> 0, tmp |-> {},
                out |-> IF old
                        THEN { OldDoc(DefaultOutput(args.input, args.output)) }
                        ELSE {}]
    /\ job = IdleJob
    /\ batch = IdleBatch
    /\ wm = IdleMain
    /\ exit_code = -1

\* python batch_convert.py INPUT_DIR [-o OUTPUT_DIR] [-p PATTERN] [-r]
BatchRuns ==
    { [NoArgs EXCEPT !.prog = "batch_convert", !.input_dir = d, !.output_dir = o,
                     !.pattern = p, !.recursive = r] :
        d \in { "dir", "file", "missing" }, o \in BOOLEAN, p \in Patterns,
        r \in BOOLEAN }

BatchInit ==
    /\ args \in BatchRuns
    /\ args.input_dir # "dir" =>
          /\ ~args.output_dir /\ ~args.recursive /\ args.pattern = "*.mp4"
    /\ \E olds \in SUBSET { OutputFile(Tree[k], args.output_dir) : k \in 1..Len(Tree) } :
          fs = [ntmp |-> 0, tmp |-> {}, out |-> { OldDoc(p) : p \in olds }]
    /\ job = IdleJob
    /\ batch = IdleBatch
    /\ wm = IdleMain
    /\ exit_code = -1

TalkAudio == [dir |-> "in", stem |-> "talk", suffix |-> ".wav"]
TalkMp3 == [dir |-> "in", stem |-> "talk", suffix |-> ".mp3"]

\* python transcribe.py INPUT [--output OUTPUT]
MainRuns ==
    { [NoArgs EXCEPT !.prog = "transcribe", !.input = i, !.input_exists = e,
                     !.output = o] :
        i \in { TalkVideo, TalkAudio, TalkMp3 }, e \in BOOLEAN,
        o \in { None, NotesDoc } }

MainInit ==
    /\ args \in MainRuns
    /\ \E old \in BOOLEAN :
          fs = [ntmp |-> 0, tmp |-> {},
                out |-> IF old
                        THEN { OldDoc(DefaultOutput(args.input, args.output)) }
                        ELSE {}]
    /\ job = IdleJob
    /\ batch = IdleBatch
    /\ wm = IdleMain
    /\ exit_code = -1

Init == VttInit \/ BatchInit \/ MainInit

Next ==
    \/ ConvertStep
    \/ VttMain
    \/ VttExit
    \/ BatchStep
    \/ MainStepAny

Spec == Init /\ [][Next]_vars

(***************************************************************************)
(* create_docx on its own: a converter is handed a transcript.             *)
(***************************************************************************)
\* Longest transcript drawn letter by letter.
MaxTranscriptLen == 5

TranscriptLetters == { "a", ".", " " }

HelloWorld ==
    << "H", "e", "l", "l", "o", ".", " ", "W", "o", "r", "l", "d", "." >>

DocxTranscripts ==
    UNION { [1..n -> TranscriptLetters] : n \in 0..MaxTranscriptLen }
        \cup { HelloWorld, Placeholder }

DocxInit ==
    /\ args = [NoArgs EXCEPT !.prog = "create_docx", !.input = TalkVideo,
                             !.input_exists = TRUE]
    /\ fs = [ntmp |-> 0, tmp |-> {}, out |-> {}]
    /\ \E t \in DocxTranscripts :
          job = [NewConverter(1, TalkVideo, None) EXCEPT
                    !.pc = "docx", !.transcribed_text = t]
    /\ batch = IdleBatch
    /\ wm = IdleMain
    /\ exit_code = -1

DocxNext == CreateDocx \/ Finally

SpecDocx == DocxInit /\ [][DocxNext]_vars

(***************************************************************************)
(* Properties.                                                             *)
(***************************************************************************)
JobEnded == job.pc \in { "returned", "raised" }

\* transcribe_audio has returned a transcript.
Transcribed ==
    \E k \in 1..Len(job.steps) :
        job.steps[k].step = "Transcribing" /\ job.steps[k].ok

\* The chunks of the job that gave recognized text, in the order attempted.
Recognized ==
    SelectSeq(job.segments, LAMBDA g : g.outcome = "text" /\ g.text # <<>>)

RecognizedTexts == [k \in 1..Len(Recognized) |-> Recognized[k].text]

\* Where the k-th of the texts starts in a transcript that separates
\* neighbours by one character.
RECURSIVE StartOf(_, _)
StartOf(texts, k) ==
    IF k = 1 THEN 1 ELSE StartOf(texts, k - 1) + Len(texts[k - 1]) + 1

\* t is the texts in their order, each two neighbours one space apart, and
\* nothing else.
SpacedTexts(t, texts) ==
    /\ texts # <<>>
    /\ Len(t) = StartOf(texts, Len(texts)) + Len(texts[Len(texts)]) - 1
    /\ \A k \in 1..Len(texts) :
          /\ SubSeq(t, StartOf(texts, k), StartOf(texts, k) + Len(texts[k]) - 1)
               = texts[k]
          /\ k < Len(texts) => t[StartOf(texts, k) + Len(texts[k])] = " "

\* C1: whatever chunks fail softly, the text of every recognized chunk is
\* kept, in increasing offset order: at every point of the loop the
\* collected texts are those of the recognized chunks so far, the chunks
\* were attempted at increasing offsets, and the transcript returned is
\* these texts joined by exactly one space.
C1_SoftFailuresKeepRecognizedText ==
    /\ job.full_text = RecognizedTexts
    /\ \A k \in 1..(Len(job.segments) - 1) :
          job.segments[k].offset < job.segments[k + 1].offset
    /\ (Transcribed /\ Recognized # <<>>) =>
          SpacedTexts(job.transcribed_text, RecognizedTexts)

\* The example of the specification: five chunks, the second of which meets
\* a backend error, give the texts of chunks 1, 3, 4 and 5.
C1_Witness ==
    /\ job.pc = "returned"
    /\ Len(job.segments) = 5
    /\ job.segments[2].outcome = "request_error"
    /\ \A k \in { 1, 3, 4, 5 } :
          job.segments[k].outcome = "text" /\ job.segments[k].text # <<>>
    /\ job.transcribed_text =
          << "w", "1", " ", "w", "3", " ", "w", "4", " ", "w", "5" >>

\* C2: transcribe_audio returns the placeholder exactly when no chunk gave
\* recognized text (zero chunks included), and it never raises because of a
\* chunk: a transcription that raised, other than by the user interrupting
\* it, had attempted no chunk.
C2_PlaceholderIffNothingRecognized ==
    /\ Transcribed =>
          ((Recognized = <<>>) <=> (job.transcribed_text = Placeholder))
    /\ (/\ \E k \in 1..Len(job.steps) :
               job.steps[k].step = "Transcribing" /\ ~job.steps[k].ok
        /\ job.exc # "KeyboardInterrupt")
          => job.segments = <<>>
    /\ (job.pc = "chunk" /\ job.offset >= job.audio_duration) =>
          ENABLED FinishTranscription

\* Three chunks, none recognized (not understood, backend error, empty
\* answer), and the placeholder is returned.
C2_Witness ==
    /\ job.pc = "returned"
    /\ Len(job.segments) = 3
    /\ job.segments[1].outcome = "unknown_value"
    /\ job.segments[2].outcome = "request_error"
    /\ job.segments[3].outcome = "text" /\ job.segments[3].text = <<>>
    /\ job.transcribed_text = Placeholder

\* C3: when convert() has ended, returning or raising, the temporary wav of
\* the job is gone and was removed exactly once.
C3_TempFileGoneAfterConvert ==
    (JobEnded /\ job.temp_audio_path # 0) =>
        /\ job.temp_audio_path \notin fs.tmp
        /\ job.removes = << TRUE >>

\* C4: when transcribe.py main has ended, on whatever path, no temporary
\* wav it created is left.
C4_NoTempFileLeftAfterMain ==
    wm.pc \in { "done", "failed", "exited" } => fs.tmp = {}

CeilDiv(a, b) == (a + b - 1) \div b

\* C5: for audio of duration D the loop attempts ceil(D / C) chunks, at
\* offsets 0, C, 2C, ...; every chunk but the last asks for C seconds and
\* the last for D - C * floor(D / C) when C does not divide D, else for C.
C5_ChunkCountAndLengths ==
    Transcribed =>
        LET D == job.audio_duration
            C == chunk_duration
            n == Len(job.segments)
        IN /\ n = CeilDiv(D, C)
           /\ \A k \in 1..n :
                 /\ job.segments[k].offset = (k - 1) * C
                 /\ job.segments[k].duration =
                       IF k < n \/ D % C = 0 THEN C ELSE D - C * (D \div C)

\* Audio that ends in the middle of its last chunk, one chunk of which
\* could not be read.
C5_Witness ==
    /\ Transcribed
    /\ job.audio_duration % chunk_duration # 0
    /\ Len(job.segments) >= 3
    /\ job.segments[Len(job.segments)].duration < chunk_duration
    /\ \E k \in 1..Len(job.segments) : job.segments[k].outcome = "read_error"

\* C6: a chunk that could not be read ends the transcription: no chunk is
\* attempted after it and no transcript is returned.
C6_ReadErrorAbortsTranscription ==
    \A k \in 1..Len(job.segments) :
        job.segments[k].outcome = "read_error" =>
            /\ k = Len(job.segments)
            /\ ~Transcribed

ConvertOrder == << "Extracting", "Transcribing", "Assembling" >>
MainOrder == << "Extracting", "Normalizing", "Transcribing", "Assembling" >>

\* The steps run are the first ones of the order, and each but the last of
\* them succeeded.
InOrder(steps, order) ==
    /\ Len(steps) <= Len(order)
    /\ \A k \in 1..Len(steps) :
          /\ steps[k].step = order[k]
          /\ k < Len(steps) => steps[k].ok

AllDone(steps, order) ==
    /\ Len(steps) = Len(order)
    /\ \A k \in 1..Len(steps) : steps[k].ok

\* C7: a job runs its steps in the order Extracting, (Normalizing,)
\* Transcribing, Assembling, each only after the one before succeeded; it
\* is done only with every step succeeded; and once a step has failed no
\* later step runs: the job is left with its cleanup and its failure.
C7_PipelineOrderAndAbsorbingFailure ==
    /\ InOrder(job.steps, ConvertOrder)
    /\ job.pc \in { "open", "chunk" } => job.steps = << [step |-> "Extracting", ok |-> TRUE] >>
    /\ job.pc = "docx" => Len(job.steps) = 2 /\ job.steps[2].ok
    /\ job.pc = "returned" => AllDone(job.steps, ConvertOrder)
    /\ job.exc # "none" => job.pc \in { "finally", "raised" }
    /\ InOrder(wm.steps, MainOrder)
    /\ wm.pc = "normalise" => Len(wm.steps) = 1 /\ wm.steps[1].ok
    /\ wm.pc = "transcribe" => Len(wm.steps) = 2 /\ wm.steps[2].ok
    /\ wm.pc = "save" => Len(wm.steps) = 3 /\ wm.steps[3].ok
    /\ wm.pc = "done" => AllDone(wm.steps, MainOrder)
    /\ wm.exc # "none" => wm.pc \in { "cleanup", "failed" }

\* A job whose transcription failed: it ended raising, and no document was
\* assembled.
C7_Witness ==
    /\ job.pc = "raised"
    /\ Len(job.steps) = 2
    /\ job.steps[1].ok /\ ~job.steps[2].ok
    /\ ~OutExists(fs, job.output_path)

\* C8, as stated: a finished job returns the output path and the number of
\* characters of the transcript.
C8_ReturnsPathAndCount ==
    job.pc = "returned" =>
        /\ Len(job.result) = 2
        /\ job.result[1] = job.output_path
        /\ job.result[2] = Len(job.transcribed_text)

\* C8, amended: a finished job returns the output path, which is where the
\* document was saved; the number of characters of the transcript is
\* printed with the path, not returned.
C8_ReturnsPathPrintsCount ==
    job.pc = "returned" =>
        /\ job.result = << job.output_path >>
        /\ DocAt(fs, job.output_path) = job.id
        /\ job.printed = << [output_file |-> job.output_path,
                             length |-> Len(job.transcribed_text)] >>

\* A finished job with a transcript of two recognized chunks, the default
\* output path, and 5 characters reported.
C8_Witness ==
    /\ job.pc = "returned"
    /\ job.video_path = TalkVideo
    /\ job.result = << [dir |-> "in", stem |-> "talk", suffix |-> ".docx"] >>
    /\ job.transcribed_text = << "w", "1", " ", "w", "2" >>
    /\ job.printed[1].length = 5

\* The turns of the batch that ended the given way, in order.
TurnsEnded(outcome) == SelectSeq(batch.turns, LAMBDA t : t.outcome = outcome)

\* C9: after the loop every matched file has had its turn and is counted as
\* exactly one of successful, failed and skipped; the failed list names
\* the files whose job raised, in order; the return code is 0 exactly when
\* nothing failed.  A failure never keeps the next file from its turn.
C9_BatchAccounting ==
    /\ (batch.pc = "returned" /\ batch.video_files # <<>>) =>
          /\ Len(batch.turns) = Len(batch.video_files)
          /\ \A k \in 1..Len(batch.turns) :
                /\ batch.turns[k].file = batch.video_files[k]
                /\ batch.turns[k].outcome \in { "successful", "failed", "skipped" }
          /\ batch.successful = Len(TurnsEnded("successful"))
          /\ batch.failed = Len(TurnsEnded("failed"))
          /\ batch.skipped = Len(TurnsEnded("skipped"))
          /\ batch.successful + batch.failed + batch.skipped = Len(batch.video_files)
          /\ Len(batch.failed_files) = Len(TurnsEnded("failed"))
          /\ \A k \in 1..Len(batch.failed_files) :
                batch.failed_files[k].name = Name(TurnsEnded("failed")[k].file)
          /\ (exit_code = 0) <=> (batch.failed = 0)
    /\ (batch.pc = "loop" /\ batch.i <= Len(batch.video_files)) =>
          ENABLED BatchNextFile

\* A batch of three files: the first failed for want of an audio track, the
\* second was converted, the third was passed over.
C9_Witness ==
    /\ batch.pc = "returned"
    /\ Len(batch.turns) = 3
    /\ batch.turns[1].outcome = "failed"
    /\ batch.failed_files[1].error = "NoAudioTrack"
    /\ batch.turns[2].outcome = "successful"
    /\ batch.turns[3].outcome = "skipped"
    /\ exit_code = 1

\* C10, as stated: a file whose output exists when its turn comes is
\* converted only if the answer was y; else it is passed over and the
\* output stays as it was.
C10_OverwriteOnlyOnLowercaseY ==
    \A k \in 1..Len(batch.turns) :
        batch.turns[k].existed =>
            IF batch.turns[k].response = "y"
            THEN batch.turns[k].started
            ELSE /\ ~batch.turns[k].started
                 /\ batch.turns[k].outcome = "skipped"

\* The output of turn k has been changed since the turn came.
OutputChanged(k) ==
    DocAt(fs, batch.turns[k].output_file) # batch.turns[k].before

\* C10, amended: a file whose output exists when its turn comes is
\* converted only if the answer was y or Y (the answer is lower-cased);
\* else it is passed over.  An output that existed and was changed was
\* changed by a turn that was given such an answer.
C10_OverwriteOnlyWhenConfirmed ==
    \A k \in 1..Len(batch.turns) :
        batch.turns[k].existed =>
            /\ IF batch.turns[k].response \in { "y", "Y" }
               THEN batch.turns[k].started
               ELSE /\ ~batch.turns[k].started
                    /\ batch.turns[k].outcome = "skipped"
            /\ OutputChanged(k) =>
                  \E m \in k..Len(batch.turns) :
                      /\ batch.turns[m].output_file = batch.turns[k].output_file
                      /\ batch.turns[m].existed
                      /\ batch.turns[m].response \in { "y", "Y" }
                      /\ batch.turns[m].started

\* A batch in which one existing output was kept on the answer n and
\* another was replaced on the answer y.
C10_Witness ==
    /\ batch.pc = "returned"
    /\ \E k, m \in 1..Len(batch.turns) :
          /\ batch.turns[k].existed /\ batch.turns[k].response = "n"
          /\ batch.turns[k].outcome = "skipped"
          /\ DocAt(fs, batch.turns[k].output_file) = 0
          /\ batch.turns[m].existed /\ batch.turns[m].response = "y"
          /\ batch.turns[m].outcome = "successful"
          /\ DocAt(fs, batch.turns[m].output_file) = m

\* C11: every chunk attempted has exactly one outcome and caused exactly one
\* call of the recognition backend: none was sent twice and none was left
\* without a call.
C11_OneRecognitionCallPerChunk ==
    Transcribed =>
        /\ Len(job.segments) = job.chunk_num - 1
        /\ \A k \in 1..Len(job.segments) :
              /\ job.segments[k].outcome \in ChunkOutcomes
              /\ job.segments[k].calls = 1

Assembled == "Assembling" \in { job.steps[k].step : k \in 1..Len(job.steps) }

Pieces == Split(job.transcribed_text, << ".", " " >>)

\* The pieces of the transcript that are not blank, by their place.
Kept == SelectSeq([i \in 1..Len(Pieces) |-> i],
                  LAMBDA i : Strip(Pieces[i]) # <<>>)

WithPeriod(t) == IF EndsWith(t, << "." >>) THEN t ELSE t \o << "." >>

\* C12 as stated: the body is the non-blank pieces of the split on ". ", in
\* transcript order, each piece the split took the period from (every piece
\* but the last) with a period appended again.
C12_PeriodReappendedToEveryPiece ==
    Assembled =>
        /\ Len(job.paragraphs) = Len(Kept)
        /\ \A k \in 1..Len(Kept) :
              job.paragraphs[k] =
                  Strip(Pieces[Kept[k]])
                      \o (IF Kept[k] < Len(Pieces) THEN << "." >> ELSE <<>>)

\* C12: the body is the non-blank pieces of the split on ". ", in transcript
\* order, none dropped or repeated, each stripped of the blanks around it;
\* every piece but the last ends with a period, appended unless the piece
\* ends with one already, and the last piece is left as it is.  The pieces
\* joined by ". " are the transcript, and "Hello. World." gives "Hello." and
\* "World.".
C12_PeriodReappendedUnlessPresent ==
    Assembled =>
        /\ Join(<< ".", " " >>, Pieces) = job.transcribed_text
        /\ Len(job.paragraphs) = Len(Kept)
        /\ \A k \in 1..Len(Kept) :
              job.paragraphs[k] =
                  IF Kept[k] < Len(Pieces)
                  THEN WithPeriod(Strip(Pieces[Kept[k]]))
                  ELSE Strip(Pieces[Kept[k]])
        /\ job.transcribed_text = HelloWorld =>
              job.paragraphs = << << "H", "e", "l", "l", "o", "." >>,
                                  << "W", "o", "r", "l", "d", "." >> >>

\* A transcript whose first piece ends with a period of its own has been
\* rendered: no second period was put after it.
C12_Witness ==
    /\ Assembled
    /\ job.transcribed_text = << "a", ".", ".", " ", "a" >>
    /\ job.paragraphs = << << "a", "." >>, << "a" >> >>

\* C13 as stated: an empty transcript and the placeholder transcript are both
\* rendered as one paragraph, the placeholder text.
C13_EmptyOrPlaceholderGivesPlaceholder ==
    (Assembled /\ job.transcribed_text \in { <<>>, Placeholder }) =>
        job.paragraphs = << Placeholder >>

\* C13: create_docx raises only when the document cannot be saved; the
\* placeholder transcript is rendered as exactly one paragraph, the
\* placeholder text, and an empty transcript as no paragraph at all.
C13_PlaceholderIsSoleParagraph ==
    Assembled =>
        /\ job.exc \in { "none", "OutputWriteError" }
        /\ job.transcribed_text = Placeholder =>
              job.paragraphs = << Placeholder >>
        /\ job.transcribed_text = <<>> => job.paragraphs = <<>>

C13_Witness ==
    /\ Assembled
    /\ job.exc = "none"
    /\ job.transcribed_text = Placeholder
    /\ job.paragraphs = << Placeholder >>
    /\ job.pc = "returned"

\* C14: the audio handed to the recognition backend is 16 kHz mono on every
\* path: every chunk video_to_text.py sends, and the file transcribe.py
\* hands over, also when the input was an audio file passed through.
C14_RecognitionAudioIs16kMono ==
    /\ \A k \in 1..Len(job.segments) :
          job.segments[k].calls > 0 =>
              job.segments[k].format = [rate |-> 16000, channels |-> 1]
    /\ wm.pc \in { "cleanup", "save", "done" } =>
          wm.handed = [rate |-> 16000, channels |-> 1]

\* The user has interrupted the run.
Interrupted ==
    \/ job.exc = "KeyboardInterrupt"
    \/ wm.exc = "KeyboardInterrupt"
    \/ batch.pc = "interrupted"

\* The run has done what it was started for.
RunSucceeded ==
    CASE args.prog = "video_to_text" -> job.pc = "returned"
      [] args.prog = "transcribe"    -> wm.pc = "done"
      [] args.prog = "batch_convert" ->
            batch.pc = "returned" /\ batch.video_files # <<>> /\ batch.failed = 0
      [] OTHER -> FALSE

\* The exit codes of a run that was not interrupted: 0 exactly when it
\* succeeded.
ExitCodeTellsSuccess ==
    (exit_code # -1 /\ ~Interrupted) => (exit_code = 0 <=> RunSucceeded)

\* An interrupted batch ends with 130 and has not recorded the interrupt as
\* the failure of a file.
BatchInterruptEndsWith130 ==
    batch.pc = "interrupted" =>
        /\ exit_code = 130
        /\ batch.failed = Len(batch.failed_files)
        /\ \A k \in 1..Len(batch.failed_files) :
              batch.failed_files[k].error # "KeyboardInterrupt"
        /\ batch.successful + batch.failed + batch.skipped
              < Len(batch.video_files)

\* C15: every entry point exits with 0 when the run succeeds, with a
\* non-zero code on any unhandled failure and with 130 when the user
\* interrupts it; an interrupt during a batch is not recorded as the failure
\* of a file and ends the batch with 130.
C15_ExitCodes ==
    /\ ExitCodeTellsSuccess
    /\ BatchInterruptEndsWith130
    /\ (exit_code # -1 /\ Interrupted) => exit_code = 130

\* C16: a missing input ends the run at once with a fatal error (the
\* constructor raises and main exits with 1; transcribe.py exits with 1)
\* before any pipeline step: no temporary file is created, nothing is
\* extracted or recognized, and nothing is tried again.
C16_MissingInputFailsBeforeAnyStep ==
    (args.prog \in { "video_to_text", "transcribe" } /\ ~args.input_exists) =>
        /\ fs.ntmp = 0 /\ fs.tmp = {}
        /\ job = IdleJob
        /\ wm \in { IdleMain, [IdleMain EXCEPT !.pc = "exited"] }
        /\ exit_code \in { -1, 1 }
        /\ args.prog = "transcribe" => (exit_code = 1 <=> wm.pc = "exited")
        /\ ~ENABLED ConvertStep
        /\ exit_code = 1 => ~ENABLED Next

\* video_to_text.py was started on a video that is not there and has ended.
C16_Witness ==
    /\ args.prog = "video_to_text"
    /\ ~args.input_exists
    /\ exit_code = 1
    /\ job = IdleJob

\* The output path a run on args.input is to write.
ExpectedOutput ==
    IF args.output = None
    THEN [dir |-> args.input.dir, stem |-> args.input.stem, suffix |-> ".docx"]
    ELSE args.output

\* C17: without an output path the document goes to the input path with its
\* extension replaced by .docx, in the same directory (talk.mp4 to
\* talk.docx); a given output path is used unchanged.  No run writes a
\* document anywhere else.
C17_DefaultOutputPath ==
    /\ (args.prog = "video_to_text" /\ job.pc # "idle") =>
          job.output_path = ExpectedOutput
    /\ args.prog \in { "video_to_text", "transcribe" } =>
          \A d \in fs.out : d.content # 0 => d.path = ExpectedOutput
    /\ (args.prog = "transcribe" /\ wm.pc = "done") =>
          [path |-> ExpectedOutput, content |-> 1] \in fs.out
    /\ (args.prog = "video_to_text" /\ job.pc = "returned") =>
          [path |-> ExpectedOutput, content |-> 1] \in fs.out

\* video_to_text.py in/talk.mp4 without -o has written in/talk.docx.
C17_Witness ==
    /\ args.prog = "video_to_text"
    /\ args.input = [dir |-> "in", stem |-> "talk", suffix |-> ".mp4"]
    /\ args.output = None
    /\ job.pc = "returned"
    /\ [path |-> [dir |-> "in", stem |-> "talk", suffix |-> ".docx"],
        content |-> 1] \in fs.out

\* C18: the chunks sent to the recognition backend partition the audio: the
\* k-th chunk (k = 0, 1, ...) is the slice that starts at k*C and is
\* min(C, D - k*C) long, so the chunks are contiguous, do not overlap and
\* cover [0, D).
C18_ChunksPartitionAudio ==
    \A k \in 1..Len(job.segments) :
        job.segments[k].calls > 0 =>
            /\ job.segments[k].from = (k - 1) * chunk_duration
            /\ job.segments[k].to - job.segments[k].from =
                   Min(chunk_duration,
                       job.audio_duration - (k - 1) * chunk_duration)

\* C19: the chunk loop terminates: every iteration, whatever its outcome
\* (recognized, unrecognized, backend error, exception while reading),
\* advances the offset by exactly C exactly once, so the k-th iteration is
\* at offset (k-1)*C, no chunk is processed twice, the loop makes at most
\* ceil(D/C) iterations, and while it runs it can always take its next step.
C19_LoopAdvancesAndTerminates ==
    /\ job.offset = chunk_duration * Len(job.segments)
    /\ \A k \in 1..Len(job.segments) :
          job.segments[k].offset = (k - 1) * chunk_duration
    /\ Len(job.segments) <= CeilDiv(job.audio_duration, chunk_duration)
    /\ job.pc = "chunk" =>
          /\ job.chunk_num = Len(job.segments) + 1
          /\ ENABLED ConvertStep
          /\ job.offset >= job.audio_duration => ENABLED FinishTranscription

\* A loop of four iterations, one of each outcome, has ended.
C19_Witness ==
    /\ Transcribed
    /\ Len(job.segments) = 4
    /\ { job.segments[k].outcome : k \in 1..4 } = ChunkOutcomes
    /\ job.offset = 4 * chunk_duration

\* The cleanup of transcribe.py has run.
CleanedUp == "Transcribing" \in { wm.steps[k].step : k \in 1..Len(wm.steps) }
                 /\ wm.pc # "cleanup"

\* C20: the pipeline never deletes the caller's input file: when
\* transcribe.py is given an audio file that ensure_audio passes through,
\* the cleanup deletes only files the job itself created (the normalised
\* wav) and leaves the input in place, after a successful transcription and
\* after a failed one.
C20_InputNeverDeleted ==
    args.prog = "transcribe" =>
        /\ ~wm.input_deleted
        /\ \A k \in 1..Len(wm.unlinked) :
              /\ wm.unlinked[k] \in 1..fs.ntmp
              /\ wm.unlinked[k] \in { wm.audio_source, wm.normalised_audio }
        /\ (CleanedUp /\ args.input.suffix \in AudioSuffixes) =>
              /\ wm.audio_source = 0
              /\ wm.unlinked \in { <<>>, << wm.normalised_audio >> }

\* An audio input was passed through, its transcription failed, and the
\* cleanup has removed the normalised wav only.
C20_Witness ==
    /\ args.prog = "transcribe"
    /\ args.input.suffix = ".wav"
    /\ wm.pc = "failed"
    /\ wm.exc = "TranscriptionError"
    /\ wm.unlinked = << wm.normalised_audio >>
    /\ fs.tmp = {}
    /\ ~wm.input_deleted

\* Every step a pipeline has taken before the assembling of the document
\* went well, and the transcription is among them.
StepsBeforeAssemblingOk(steps) ==
    /\ \E k \in 1..Len(steps) : steps[k].step = "Transcribing" /\ steps[k].ok
    /\ \A k \in 1..Len(steps) : steps[k].step # "Assembling" => steps[k].ok

\* C21: a job writes its output document at most once, and only after its
\* transcription has completed: as long as a job has not come through
\* extraction, normalization and transcription, and after it has failed in
\* one of them, the output path is as it was: no new file, an old file
\* unchanged.
C21_OutputWrittenOnceAfterTranscription ==
    /\ job.writes <= 1 /\ wm.writes <= 1
    /\ job.writes = 1 => StepsBeforeAssemblingOk(job.steps)
    /\ wm.writes = 1 => StepsBeforeAssemblingOk(wm.steps)
    /\ (args.prog \in { "video_to_text", "transcribe" }
            /\ job.writes = 0 /\ wm.writes = 0) =>
          \A d \in fs.out : d.content = 0
    /\ (args.prog = "batch_convert" /\ job.pc # "idle" /\ job.writes = 0) =>
          DocAt(fs, job.output_path) = batch.turns[Len(batch.turns)].before

\* A job whose transcription failed has ended, and the document that was at
\* its output path before is still the one there.
C21_Witness ==
    /\ args.prog = "video_to_text"
    /\ job.pc = "raised"
    /\ job.exc = "AudioFileError"
    /\ job.writes = 0
    /\ fs.out = { [path |-> job.output_path, content |-> 0] }

\* C22: within one batch run distinct matched files have distinct output
\* paths, and no output path is one of the matched files, whatever the
\* output directory, the pattern and the recursive flag.
C22_BatchOutputsDistinct ==
    LET n == Len(batch.video_files)
        out(k) == OutputFile(batch.video_files[k], args.output_dir)
    IN /\ \A k \in 1..n, m \in 1..n :
             batch.video_files[k] # batch.video_files[m] => out(k) # out(m)
       /\ \A k \in 1..n, m \in 1..n : out(k) # batch.video_files[m]

====
